---- MODULE Spec2Model ----
(***************************************************************************)
(* The polling-based WebRTC signaling relay of app.py: the four handlers   *)
(* rtc_join, rtc_leave, rtc_signal and rtc_poll over the two tables        *)
(* RtcParticipant (presence) and RtcSignal (the signal log).               *)
(*                                                                         *)
(* Time is counted in minutes.  A Python string is a sequence of tokens,   *)
(* a token being a blank " " or a word without blanks; an optional JSON    *)
(* member is <<>> (absent or null) or <<value>>.                           *)
(***************************************************************************)
EXTENDS Integers, Sequences, FiniteSets, Bags, TLC

VARIABLES
    signals,    \* committed rows of the RtcSignal table (a set: id is the primary key)
    parts,      \* committed rows of the RtcParticipant table (a bag of rows)
    nextId,     \* the RtcSignal table's autoincrement counter
    now,        \* datetime.utcnow(), in minutes
    resp,       \* the response of the last request served
    txs,        \* rtc_signal requests between their INSERT and their COMMIT
    cursor,     \* the polling client's cursor: the "latest" of its previous poll
    got         \* the ids that client received, in order of delivery

vars == <<signals, parts, nextId, now, resp, txs, cursor, got>>

----------------------------------------------------------------------------
(* Bounds of the model *)

NumUsers == 3
NumRooms == 2
MaxSignals == 2
MaxConcSignals == 3
MaxTime == 121

Users == 1..NumUsers
Rooms == 1..NumRooms
Sinces == 0..MaxSignals

----------------------------------------------------------------------------
(* Program constants *)

\* target_id=None: a NULL target (user ids start at 1)
NULL == 0
\* timedelta(minutes=5)
PresenceTTL == 5
\* timedelta(hours=2)
Retention == 120

Str(w) == <<w>>
None == <<>>
Some(v) == <<v>>

ValidKinds == {Str("offer"), Str("answer"), Str("candidate"), Str("hello"), Str("bye")}

----------------------------------------------------------------------------
(* Python helpers *)

\* str.strip(): drop the leading and the trailing blanks
RECURSIVE LStrip(_)
LStrip(s) == IF s # <<>> /\ Head(s) = " " THEN LStrip(Tail(s)) ELSE s

RECURSIVE RStrip(_)
RStrip(s) == IF s # <<>> /\ s[Len(s)] = " " THEN RStrip(SubSeq(s, 1, Len(s) - 1)) ELSE s

Strip(s) == RStrip(LStrip(s))

\* truthiness of an optional string: None and "" are falsy
Truthy(o) == o # None /\ o[1] # <<>>

\* (x or "")
OrEmpty(o) == IF Truthy(o) THEN o[1] ELSE <<>>

\* datetime.isoformat(), to the minute: the hour and the minute of the hour
IsoFormat(t) == <<t \div 60, t % 60>>

----------------------------------------------------------------------------
(* Table operations *)

\* the rows a filter_by(room=room, user_id=u).first() may return
PartRows(P, room, u) == {r \in BagToSet(P) : r.room = room /\ r.user_id = u}

\* part.last_seen = t on one row
SetLastSeen(P, r, t) ==
    (P (-) SetToBag({r})) (+) SetToBag({[r EXCEPT !.last_seen = t]})

\* faulty variant: every row of the room touched once the caller's is found
TouchedWholeRoom(P, room, u, t) ==
    IF PartRows(P, room, u) = {} THEN {P}
    ELSE {SetToBag({IF r.room = room THEN [r EXCEPT !.last_seen = t] ELSE r :
                    r \in BagToSet(P)})}

\* faulty variant: the touch adds the row it does not find
TouchedOrAdded(P, room, u, t) ==
    IF PartRows(P, room, u) = {}
    THEN {P (+) SetToBag({[room |-> room, user_id |-> u, last_seen |-> t]})}
    ELSE {SetLastSeen(P, r, t) : r \in PartRows(P, room, u)}

\* part = ...first(); if part: part.last_seen = utcnow()   (each possible outcome)
Touched(P, room, u, t) ==
    IF PartRows(P, room, u) = {} THEN {P}
    ELSE {SetLastSeen(P, r, t) : r \in PartRows(P, room, u)}

\* faulty variant: a row added whether or not the lookup found one
UpsertedInsertOnly(P, room, u, t) ==
    {P (+) SetToBag({[room |-> room, user_id |-> u, last_seen |-> t]})}

\* the upsert of rtc_join (each possible outcome)
Upserted(P, room, u, t) ==
    IF PartRows(P, room, u) = {}
    THEN {P (+) SetToBag({[room |-> room, user_id |-> u, last_seen |-> t]})}
    ELSE {SetLastSeen(P, r, t) : r \in PartRows(P, room, u)}

\* RtcParticipant.query.filter_by(room=room, user_id=u).delete()
RemovePart(P, room, u) ==
    LET keep == {r \in BagToSet(P) : ~(r.room = room /\ r.user_id = u)}
    IN  [r \in keep |-> P[r]]

\* faulty variant: RtcParticipant.last_seen <= cutoff
ReapStaleInclusive(P, t) ==
    LET cutoff == t - PresenceTTL
        keep == {r \in BagToSet(P) : ~(r.last_seen <= cutoff)}
    IN  [r \in keep |-> P[r]]

\* RtcParticipant.query.filter(RtcParticipant.last_seen < cutoff).delete()
ReapStale(P, t) ==
    LET cutoff == t - PresenceTTL
        keep == {r \in BagToSet(P) : ~(r.last_seen < cutoff)}
    IN  [r \in keep |-> P[r]]

\* faulty variant: the rows of every room but the caller's own
OthersAnyRoom(P, room, u) ==
    LET rows == {r \in BagToSet(P) : r.user_id # u}
        ids == {r.user_id : r \in rows}
    IN  [i \in ids |-> Cardinality({r \in rows : r.user_id = i})]

\* [p.user_id for p in others], the order of the rows being the database's
Others(P, room, u) ==
    LET rows == {r \in BagToSet(P) : r.room = room /\ r.user_id # u}
        ids == {r.user_id : r \in rows}
        RECURSIVE Sum(_)
        Sum(R) == IF R = {} THEN 0
                  ELSE LET r == CHOOSE x \in R : TRUE IN P[r] + Sum(R \ {r})
    IN  [i \in ids |-> Sum({r \in rows : r.user_id = i})]

\* faulty variant: RtcSignal.created_at <= cutoff
PurgeOldInclusive(S, t) ==
    LET cutoff == t - Retention
    IN  {m \in S : ~(m.created_at <= cutoff)}

\* RtcSignal.query.filter(RtcSignal.created_at < cutoff).delete()
PurgeOld(S, t) ==
    LET cutoff == t - Retention
    IN  {m \in S : ~(m.created_at < cutoff)}

\* faulty variant: the id taken as one more than the greatest committed id
MaxIdPlusOne ==
    IF signals = {} THEN 1
    ELSE (CHOOSE i \in {m.id : m \in signals} : \A m \in signals : m.id <= i) + 1

\* the id the database gives the row being inserted
NextSignalId == nextId

\* RtcSignal(room=..., sender_id=..., target_id=..., kind=..., payload=...)
NewSignal(id, room, u, target, kind, payload, t) ==
    [id |-> id, room |-> room, sender_id |-> u, target_id |-> target,
     kind |-> kind, payload |-> payload, created_at |-> t]

\* faulty variants of the WHERE clause: one condition dropped or cut short
PollFilterAnyTarget(m, room, u, since) ==
    /\ m.room = room
    /\ m.id > since
    /\ m.sender_id # u

PollFilterOwnToo(m, room, u, since) ==
    /\ m.room = room
    /\ m.id > since
    /\ (m.target_id = u \/ m.target_id = NULL)

PollFilterUnicastOnly(m, room, u, since) ==
    /\ m.room = room
    /\ m.id > since
    /\ m.target_id = u
    /\ m.sender_id # u

\* faulty variant: RtcSignal.id >= since
PollFilterFromCursor(m, room, u, since) ==
    /\ m.room = room
    /\ m.id >= since
    /\ (m.target_id = u \/ m.target_id = NULL)
    /\ m.sender_id # u

\* faulty variant: nothing for a caller without a row in the room
PollFilterJoinedOnly(m, room, u, since) ==
    /\ PartRows(parts, room, u) # {}
    /\ m.room = room
    /\ m.id > since
    /\ (m.target_id = u \/ m.target_id = NULL)
    /\ m.sender_id # u

\* the WHERE clause of rtc_poll
PollFilter(m, room, u, since) ==
    /\ m.room = room
    /\ m.id > since
    /\ (m.target_id = u \/ m.target_id = NULL)
    /\ m.sender_id # u

\* faulty variant: .order_by(RtcSignal.id.desc())
RECURSIVE OrderByIdDesc(_)
OrderByIdDesc(S) ==
    IF S = {} THEN <<>>
    ELSE LET m == CHOOSE x \in S : \A y \in S : x.id >= y.id
         IN  <<m>> \o OrderByIdDesc(S \ {m})

\* .order_by(RtcSignal.id.asc()).all()
RECURSIVE OrderById(_)
OrderById(S) ==
    IF S = {} THEN <<>>
    ELSE LET m == CHOOSE x \in S : \A y \in S : x.id <= y.id
         IN  <<m>> \o OrderById(S \ {m})

PollSignals(S, room, u, since) ==
    OrderById({m \in S : PollFilter(m, room, u, since)})

\* one entry of "out"
SignalDict(s) ==
    [id |-> s.id, room |-> s.room, sender_id |-> s.sender_id,
     target_id |-> s.target_id, kind |-> s.kind, payload |-> s.payload,
     created_at |-> IsoFormat(s.created_at)]

PollOut(S, room, u, since) ==
    LET q == PollSignals(S, room, u, since)
    IN  [i \in 1..Len(q) |-> SignalDict(q[i])]

\* faulty variant: (out[-1]["id"] if out else 0)
LatestOrZero(out, since) == IF out # <<>> THEN out[Len(out)].id ELSE 0

\* (out[-1]["id"] if out else since)
Latest(out, since) == IF out # <<>> THEN out[Len(out)].id ELSE since

----------------------------------------------------------------------------
(* The handlers, each as one request served alone *)

\* ("found" keeps what the lookup of the upsert matched)
RtcJoin(room, u) ==
    /\ \E P \in Upserted(parts, room, u, now) :
          /\ parts' = P
          /\ resp' = [op |-> "join", room |-> room, user |-> u, status |-> 200,
                      found |-> PartRows(parts, room, u),
                      participants |-> Others(P, room, u)]
    /\ UNCHANGED <<signals, nextId, now, txs, cursor, got>>

RtcLeave(room, u) ==
    /\ nextId <= MaxSignals
    /\ parts' = RemovePart(parts, room, u)
    /\ signals' = signals \cup
          {NewSignal(NextSignalId, room, u, NULL, Str("leave"), Str("{}"), now)}
    /\ nextId' = nextId + 1
    /\ resp' = [op |-> "leave", room |-> room, user |-> u, status |-> 200]
    /\ UNCHANGED <<now, txs, cursor, got>>

\* faulty variant: the payload checked before the kind
SignalErrorPayloadFirst(data) ==
    IF ~Truthy(data.payload) THEN "Missing payload"
    ELSE IF Strip(OrEmpty(data.kind)) \notin ValidKinds THEN "Invalid kind"
    ELSE ""

\* the two validation failures of rtc_signal, "" when the request is valid
SignalError(data) ==
    IF Strip(OrEmpty(data.kind)) \notin ValidKinds THEN "Invalid kind"
    ELSE IF ~Truthy(data.payload) THEN "Missing payload"
    ELSE ""

\* sig = RtcSignal(...); db.session.add(sig), as flushed by the next query
SignalRow(room, u, data, id, t) ==
    NewSignal(id, room, u, data.target_id, Strip(OrEmpty(data.kind)),
              data.payload[1], t)

\* faulty variant: a cleanup that raises takes the request's row with it
SignalsCommittedOrLost(S, sig, cleanupOk, t) ==
    IF cleanupOk THEN PurgeOld(S \cup {sig}, t) ELSE S

\* faulty variant: no cleanup at all
SignalsCommittedNoPurge(S, sig, cleanupOk, t) == S \cup {sig}

\* the signal table once the request commits: its row added, the old rows
\* deleted unless the cleanup raised
SignalsCommitted(S, sig, cleanupOk, t) ==
    IF cleanupOk THEN PurgeOld(S \cup {sig}, t) ELSE S \cup {sig}

SignalOk(sig, data) ==
    [op |-> "signal", status |-> 200, id |-> sig.id,
     kind |-> data.kind, payload |-> data.payload]

\* faulty variant: presence touched before the request is validated
RtcSignalTouchFirst(room, u, data, cleanupOk) ==
    LET err == SignalError(data)
    IN
    /\ parts' \in Touched(parts, room, u, now)
    /\ IF err # ""
       THEN /\ resp' = [op |-> "signal", status |-> 400, error |-> err,
                        kind |-> data.kind, payload |-> data.payload]
            /\ UNCHANGED <<signals, nextId, now, txs, cursor, got>>
       ELSE /\ nextId <= MaxSignals
            /\ LET sig == SignalRow(room, u, data, NextSignalId, now)
               IN  /\ signals' = SignalsCommitted(signals, sig, cleanupOk, now)
                   /\ resp' = SignalOk(sig, data)
            /\ nextId' = nextId + 1
            /\ UNCHANGED <<now, txs, cursor, got>>

RtcSignal(room, u, data, cleanupOk) ==
    LET err == SignalError(data)
    IN
    IF err # ""
    THEN /\ resp' = [op |-> "signal", status |-> 400, error |-> err,
                     kind |-> data.kind, payload |-> data.payload]
         /\ UNCHANGED <<signals, parts, nextId, now, txs, cursor, got>>
    ELSE /\ nextId <= MaxSignals
         /\ LET sig == SignalRow(room, u, data, NextSignalId, now)
            IN  /\ signals' = SignalsCommitted(signals, sig, cleanupOk, now)
                /\ resp' = SignalOk(sig, data)
         /\ nextId' = nextId + 1
         /\ parts' \in Touched(parts, room, u, now)
         /\ UNCHANGED <<now, txs, cursor, got>>

\* faulty variant: a poll that deletes the messages it returns
PollRequestConsuming(room, u, since, cleanupOk) ==
    /\ \E P \in Touched(parts, room, u, now) :
          parts' = IF cleanupOk THEN ReapStale(P, now) ELSE P
    /\ LET out == PollOut(signals, room, u, since)
       IN  /\ resp' = [op |-> "poll", room |-> room, user |-> u, status |-> 200,
                        since |-> since, signals |-> out, latest |-> Latest(out, since)]
           /\ signals' = {m \in signals : ~PollFilter(m, room, u, since)}
    /\ UNCHANGED <<nextId, now, txs>>

\* faulty variant: a poll that runs the cleanup of rtc_signal
PollRequestPurging(room, u, since, cleanupOk) ==
    /\ \E P \in Touched(parts, room, u, now) :
          parts' = IF cleanupOk THEN ReapStale(P, now) ELSE P
    /\ LET out == PollOut(signals, room, u, since)
       IN  resp' = [op |-> "poll", room |-> room, user |-> u, status |-> 200,
                    since |-> since, signals |-> out, latest |-> Latest(out, since)]
    /\ signals' = PurgeOld(signals, now)
    /\ UNCHANGED <<nextId, now, txs>>

\* faulty variant: the stale rows deleted before the caller's row is touched
PollRequestReapFirst(room, u, since, cleanupOk) ==
    /\ \E P \in Touched(IF cleanupOk THEN ReapStale(parts, now) ELSE parts,
                        room, u, now) :
          parts' = P
    /\ LET out == PollOut(signals, room, u, since)
       IN  resp' = [op |-> "poll", room |-> room, user |-> u, status |-> 200,
                    since |-> since, signals |-> out, latest |-> Latest(out, since)]
    /\ UNCHANGED <<signals, nextId, now, txs>>

\* rtc_poll but for the client-side cursor
PollRequest(room, u, since, cleanupOk) ==
    /\ \E P \in Touched(parts, room, u, now) :
          parts' = IF cleanupOk THEN ReapStale(P, now) ELSE P
    /\ LET out == PollOut(signals, room, u, since)
       IN  resp' = [op |-> "poll", room |-> room, user |-> u, status |-> 200,
                    since |-> since, signals |-> out, latest |-> Latest(out, since)]
    /\ UNCHANGED <<signals, nextId, now, txs>>

RtcPoll(room, u, since, cleanupOk) ==
    /\ PollRequest(room, u, since, cleanupOk)
    /\ UNCHANGED <<cursor, got>>

\* the poll of a client that passes the cursor its previous poll returned
FollowPoll(room, u) ==
    /\ PollRequest(room, u, cursor, TRUE)
    /\ cursor' = resp'.latest
    /\ got' = got \o [i \in 1..Len(resp'.signals) |-> resp'.signals[i].id]

\* rtc_signal up to its first query: the request is valid and the autoflush
\* has inserted its row, which has its id and is not yet visible to others
\* ("before" remembers the ids committed by then)
SignalInsert(room, u, data) ==
    /\ SignalError(data) = ""
    /\ nextId <= MaxConcSignals
    /\ \A t \in txs : t.user # u
    /\ txs' = txs \cup {[user |-> u, data |-> data,
                          sig |-> SignalRow(room, u, data, NextSignalId, now),
                          before |-> {m.id : m \in signals}]}
    /\ nextId' = nextId + 1
    /\ UNCHANGED <<signals, parts, now, resp, cursor, got>>

\* the rest of rtc_signal: presence touched, old rows deleted, commit, response
SignalCommit(t, cleanupOk) ==
    /\ t \in txs
    /\ txs' = txs \ {t}
    /\ signals' = SignalsCommitted(signals, t.sig, cleanupOk, now)
    /\ parts' \in Touched(parts, t.sig.room, t.user, now)
    /\ resp' = SignalOk(t.sig, t.data)
    /\ UNCHANGED <<nextId, now, cursor, got>>

\* the clock advances between requests
Tick(d) ==
    /\ now + d <= MaxTime
    /\ now' = now + d
    /\ UNCHANGED <<signals, parts, nextId, resp, txs, cursor, got>>

----------------------------------------------------------------------------
(* Requests served one at a time, the clock advancing between them *)

Targets == {NULL, 1}
JoinRooms == {1}
JoinUsers == {1, 2}
CleanupOutcomes == {TRUE}
TickSteps == {Retention + 1}

\* the request bodies of rtc_signal drawn here: every target with a valid
\* kind and payload, a bad kind, a missing payload
SignalData ==
    [target_id : Targets, kind : {Some(Str("offer"))}, payload : {Some(Str("sdp"))}]
    \cup {[target_id |-> NULL, kind |-> Some(Str("explode")), payload |-> Some(Str("sdp"))],
          [target_id |-> NULL, kind |-> Some(Str("offer")), payload |-> None]}

Init ==
    /\ signals = {}
    /\ parts = EmptyBag
    /\ nextId = 1
    /\ now = 0
    /\ resp = [op |-> "none"]
    /\ txs = {}
    /\ cursor = 0
    /\ got = <<>>

Next ==
    \/ \E room \in JoinRooms, u \in JoinUsers : RtcJoin(room, u)
    \/ \E room \in Rooms, u \in Users : RtcLeave(room, u)
    \/ \E room \in Rooms, u \in Users, data \in SignalData, ok \in CleanupOutcomes :
          RtcSignal(room, u, data, ok)
    \/ \E room \in Rooms, u \in Users, since \in Sinces, ok \in CleanupOutcomes :
          RtcPoll(room, u, since, ok)
    \/ \E d \in TickSteps : Tick(d)

Spec == Init /\ [][Next]_vars

----------------------------------------------------------------------------
(* Properties of rtc_poll *)

\* the ids of a response's messages
OutIds(out) == {out[i].id : i \in 1..Len(out)}

\* what rtc_poll answers in the current state
PollNow(room, u, since) == PollOut(signals, room, u, since)

\* C1: the response of a poll lists exactly the stored messages of the room
\* with id > since that are addressed to the caller or to nobody and were not
\* sent by the caller, each once, in strictly ascending id order.
C1_PollExact ==
    resp.op = "poll" =>
        LET out == resp.signals
            want == {m \in signals :
                        /\ m.room = resp.room
                        /\ m.id > resp.since
                        /\ (m.target_id = resp.user \/ m.target_id = NULL)
                        /\ m.sender_id # resp.user}
        IN  /\ Len(out) = Cardinality(want)
            /\ \A m \in want : \E i \in 1..Len(out) :
                  /\ out[i].id = m.id
                  /\ out[i].room = m.room
                  /\ out[i].sender_id = m.sender_id
                  /\ out[i].target_id = m.target_id
                  /\ out[i].kind = m.kind
                  /\ out[i].payload = m.payload
                  /\ out[i].created_at = IsoFormat(m.created_at)
            /\ \A i, j \in 1..Len(out) : i < j => out[i].id < out[j].id

\* a poll answered with two messages, a broadcast and one addressed to the caller
C1_Witness ==
    /\ resp.op = "poll"
    /\ Len(resp.signals) = 2
    /\ resp.signals[1].target_id # resp.signals[2].target_id

\* C2: a stored message addressed to X is in no poll answer of a caller other
\* than X, whatever the room and the cursor, and is in the answer of every poll
\* of its room by X with a cursor below its id (X not being its sender).
C2_Unicast ==
    \A m \in signals : m.target_id # NULL =>
        /\ \A room \in Rooms, y \in Users \ {m.target_id}, since \in Sinces :
              m.id \notin OutIds(PollNow(room, y, since))
        /\ (m.target_id \in Users /\ m.target_id # m.sender_id) =>
              \A since \in Sinces : since < m.id =>
                  m.id \in OutIds(PollNow(m.room, m.target_id, since))

\* a caller polled the room of a newer message addressed to somebody else, sent
\* by a third user, and was answered something else
C2_Witness ==
    /\ resp.op = "poll"
    /\ resp.signals # <<>>
    /\ \E m \in signals :
          /\ m.room = resp.room
          /\ m.id > resp.since
          /\ m.target_id \notin {NULL, resp.user}
          /\ m.sender_id \notin {m.target_id, resp.user}
          /\ m.id \notin OutIds(resp.signals)

\* C3: no poll answer holds a message the caller sent, whatever the room and
\* the cursor: neither its broadcasts nor the message its own leave wrote.
C3_SelfExclusion ==
    \A room \in Rooms, u \in Users, since \in Sinces :
        \A i \in 1..Len(PollNow(room, u, since)) :
            PollNow(room, u, since)[i].sender_id # u

\* a caller polled a room holding a newer broadcast of its own and the message
\* of its own leave
C3_Witness ==
    /\ resp.op = "poll"
    /\ \E m1, m2 \in signals :
          /\ m1.kind = Str("leave") /\ m2.kind = Str("offer")
          /\ \A m \in {m1, m2} :
                /\ m.room = resp.room
                /\ m.sender_id = resp.user
                /\ m.target_id = NULL
                /\ m.id > resp.since

\* the users with a row in a room
Present(room) == {r.user_id : r \in {x \in BagToSet(parts) : x.room = room}}

\* C4: a stored message with no target is in the answer of every poll of its
\* room by a participant of that room other than its sender, for every cursor
\* below its id.
C4_Broadcast ==
    \A m \in signals : m.target_id = NULL =>
        \A p \in Present(m.room) \ {m.sender_id} :
            \A since \in Sinces : since < m.id =>
                m.id \in OutIds(PollNow(m.room, p, since))

\* two participants of a room, one having polled it and been answered the
\* broadcast of a third user
C4_Witness ==
    /\ resp.op = "poll"
    /\ Cardinality(Present(resp.room)) = 2
    /\ resp.user \in Present(resp.room)
    /\ \E i \in 1..Len(resp.signals) :
          /\ resp.signals[i].target_id = NULL
          /\ resp.signals[i].sender_id \notin Present(resp.room)

\* C8: the cursor a poll returns is the greatest id of the messages returned,
\* or the cursor given when none is returned; it is never below the cursor given.
C8_Cursor ==
    resp.op = "poll" =>
        /\ resp.signals # <<>> =>
              /\ resp.latest \in OutIds(resp.signals)
              /\ \A i \in OutIds(resp.signals) : i <= resp.latest
        /\ resp.signals = <<>> => resp.latest = resp.since
        /\ resp.latest >= resp.since

\* a poll from a cursor above 0 answered with nothing while the room holds messages
C8_WitnessEmpty ==
    /\ resp.op = "poll"
    /\ resp.signals = <<>>
    /\ resp.since > 0
    /\ \E m \in signals : m.room = resp.room

\* C9: a poll that follows a poll of the same room by the same caller with the
\* same cursor, nothing but the clock having moved in between, is answered the
\* same messages and the same cursor.
C9_PollRepeatable ==
    [][(/\ resp.op = "poll"
        /\ resp'.op = "poll"
        /\ resp'.room = resp.room
        /\ resp'.user = resp.user
        /\ resp'.since = resp.since)
       => (resp'.signals = resp.signals /\ resp'.latest = resp.latest)]_vars

\* a poll was answered two messages and the same poll can be served again
C9_Witness ==
    /\ resp.op = "poll"
    /\ Len(resp.signals) = 2
    /\ ENABLED (RtcPoll(resp.room, resp.user, resp.since, TRUE) /\ resp' = resp)

----------------------------------------------------------------------------
(* Validation of rtc_signal: one sender, every shape of kind and payload *)

KindInputs ==
    {None, Some(<<>>), Some(<<" ">>)}
    \cup {Some(k) : k \in ValidKinds}
    \cup {Some(<<" ", "offer">>), Some(<<"bye", " ">>), Some(<<" ", "hello", " ">>),
          Some(<<"offer", " ", "bye">>), Some(Str("explode")), Some(Str("leave")),
          Some(Str("Offer"))}

PayloadInputs == {None, Some(<<>>), Some(<<" ">>), Some(Str("sdp"))}

ValidationData == [target_id : {NULL}, kind : KindInputs, payload : PayloadInputs]

NextV == \E data \in ValidationData : RtcSignal(1, 1, data, TRUE)

SpecV == Init /\ [][NextV]_vars

\* the kind and the payload of the request answered last, as strings
ReqKind == OrEmpty(resp.kind)
ReqPayloadEmpty == resp.payload = None \/ resp.payload = Some(<<>>)

\* the request answered last succeeded: its row is stored under the id returned,
\* which no other row has or exceeds
StoredAs(kind) ==
    /\ resp.status = 200
    /\ \E m \in signals :
          /\ m.id = resp.id
          /\ m.kind = kind
          /\ m.payload = resp.payload[1]
          /\ \A o \in signals \ {m} : o.id < m.id

\* C10, as claimed: a kind outside the five fails with "Invalid kind", one of the
\* five with an empty or absent payload fails with "Missing payload", and one
\* of the five with a non-empty payload succeeds and returns the new row's id.
C10_AsClaimed ==
    resp.op = "signal" =>
        /\ ReqKind \notin ValidKinds =>
              (resp.status = 400 /\ resp.error = "Invalid kind")
        /\ (ReqKind \in ValidKinds /\ ReqPayloadEmpty) =>
              (resp.status = 400 /\ resp.error = "Missing payload")
        /\ (ReqKind \in ValidKinds /\ ~ReqPayloadEmpty) => StoredAs(ReqKind)

\* C10, amended: the same of the kind with its leading and trailing blanks
\* stripped, which is the kind the row is stored with.
C10_Validation ==
    resp.op = "signal" =>
        /\ Strip(ReqKind) \notin ValidKinds =>
              (resp.status = 400 /\ resp.error = "Invalid kind")
        /\ (Strip(ReqKind) \in ValidKinds /\ ReqPayloadEmpty) =>
              (resp.status = 400 /\ resp.error = "Missing payload")
        /\ (Strip(ReqKind) \in ValidKinds /\ ~ReqPayloadEmpty) =>
              StoredAs(Strip(ReqKind))

\* a request whose kind carries blanks around a valid kind was stored
C10_Witness ==
    /\ resp.op = "signal"
    /\ resp.status = 200
    /\ ReqKind # Strip(ReqKind)
    /\ Cardinality(signals) = 2

----------------------------------------------------------------------------
(* Requests of several clients in flight at once: rtc_signal in two steps,   *)
(* and one client polling a room with the cursor of its previous poll        *)

\* the polling client and its room: any one user, any one room
Follower == CHOOSE u \in Users : TRUE
FollowRoom == CHOOSE room \in Rooms : TRUE

ConcData == [target_id : {NULL, Follower}, kind : {Some(Str("offer"))},
             payload : {Some(Str("sdp"))}]

NextConc ==
    \/ \E room \in Rooms, u \in Users, data \in ConcData : SignalInsert(room, u, data)
    \/ \E t \in txs : SignalCommit(t, TRUE)
    \/ \E room \in Rooms, u \in Users : RtcLeave(room, u)
    \/ RtcJoin(FollowRoom, Follower)
    \/ FollowPoll(FollowRoom, Follower)

SpecConc == Init /\ [][NextConc]_vars

\* the ids given out: those of the committed rows and of the rows in flight
CommittedIds == {m.id : m \in signals}
InFlightIds == {t.sig.id : t \in txs}

\* C5: the ids given to the messages are pairwise distinct, whether their
\* requests are in flight or done, and a request that begins after another
\* has committed gets a greater id than that one.
C5_DistinctOrderedIds ==
    /\ Cardinality(InFlightIds) = Cardinality(txs)
    /\ Cardinality(CommittedIds) = Cardinality(signals)
    /\ InFlightIds \cap CommittedIds = {}
    /\ \A t \in txs : \A i \in t.before : i < t.sig.id

\* two requests in flight at once, begun after a third had committed
C5_Witness ==
    /\ Cardinality(txs) = 2
    /\ \A t \in txs : t.before # {}

\* how often the polling client received the id
Deliveries(id) == Cardinality({i \in 1..Len(got) : got[i] = id})

\* C6, as claimed: after each poll of the client that follows its cursor, every
\* visible message of the room that is broadcast or addressed to it and was sent
\* by another has been delivered to it exactly once.
C6_ExactlyOnce ==
    resp.op = "poll" =>
        \A m \in signals :
            (/\ m.room = FollowRoom
             /\ (m.target_id = NULL \/ m.target_id = Follower)
             /\ m.sender_id # Follower)
            => Deliveries(m.id) = 1

\* C7: the ids the cursor-following client receives are strictly increasing
\* over the whole chain of its polls.
C7_IncreasingIds ==
    \A i, j \in 1..Len(got) : i < j => got[i] < got[j]

\* two polls in a row each delivered a message, the second from the cursor the
\* first returned
C7_Witness ==
    /\ Len(got) = 2
    /\ resp.op = "poll"
    /\ resp.since = got[1]
    /\ resp.latest = got[2]

----------------------------------------------------------------------------
(* Properties of rtc_leave, of the rows stored, and of what rtc_join and     *)
(* rtc_poll answer as the clock advances; requests served one at a time      *)

\* C12, as claimed: every stored message has one of the five kinds and a
\* payload that is not empty.
C12_StoredValid ==
    \A m \in signals : m.kind \in ValidKinds /\ m.payload # <<>>

\* C13, as claimed: after a leave the caller has no row in the room and the
\* newest stored message is a broadcast of kind bye from the caller in that
\* room, which every other caller polling the room from a cursor below its id
\* is answered.
C13_LeaveBye ==
    resp.op = "leave" =>
        /\ PartRows(parts, resp.room, resp.user) = {}
        /\ \E m \in signals :
              /\ \A o \in signals : o.id <= m.id
              /\ m.room = resp.room
              /\ m.sender_id = resp.user
              /\ m.target_id = NULL
              /\ m.kind = Str("bye")
              /\ \A p \in Users \ {resp.user} : \A since \in Sinces :
                    since < m.id => m.id \in OutIds(PollNow(resp.room, p, since))

\* C16, as claimed: a join is never answered a participant of the room whose
\* last_seen is more than the presence TTL before the time of that join.
C16_JoinOmitsStale ==
    [][(resp'.op = "join" /\ now' = now) =>
          \A r \in BagToSet(parts') :
              (/\ r.room = resp'.room
               /\ r.user_id # resp'.user
               /\ r.last_seen < now - PresenceTTL)
              => r.user_id \notin DOMAIN resp'.participants]_vars

\* C17, as claimed: a poll is never answered a message stored more than the
\* retention window before the time of that poll.
C17_PollOmitsOld ==
    [][(resp'.op = "poll" /\ now' = now) =>
          \A i \in 1..Len(resp'.signals) : \A m \in signals :
              m.id = resp'.signals[i].id => ~(m.created_at < now - Retention)]_vars

\* C19, as claimed: a leave succeeds, and a leave that follows a leave of the
\* same room by the same caller changes neither table.
C19_LeaveIdempotent ==
    [][/\ resp'.op = "leave" => resp'.status = 200
       /\ (/\ resp.op = "leave"
           /\ resp'.op = "leave"
           /\ resp'.room = resp.room
           /\ resp'.user = resp.user)
          => (parts' = parts /\ signals' = signals)]_vars

----------------------------------------------------------------------------
(* Requests served one at a time over both rooms, the clock advancing by the *)
(* retention window or a minute more, the cleanups failing or not            *)

\* the one caller of rtc_signal and of rtc_leave here, and its room
Sender == CHOOSE u \in Users : TRUE
SenderRoom == CHOOSE room \in Rooms : TRUE

\* the callers of each room: the last user in the other rooms only, the
\* others in the sender's room only
TimedCallers == {p \in Rooms \X Users : (p[1] = SenderRoom) # (p[2] = NumUsers)}

TimedTickSteps == {Retention, Retention + 1}

\* the request bodies of rtc_signal drawn here: a valid broadcast, a bad kind,
\* a missing payload
TimedData ==
    {[target_id |-> NULL, kind |-> Some(Str("hello")), payload |-> Some(Str("hi"))],
     [target_id |-> NULL, kind |-> Some(Str("explode")), payload |-> Some(Str("hi"))],
     [target_id |-> NULL, kind |-> Some(Str("hello")), payload |-> Some(<<>>)]}

NextTimed ==
    \/ \E p \in TimedCallers : RtcJoin(p[1], p[2])
    \/ RtcLeave(SenderRoom, Sender)
    \/ \E data \in TimedData, ok \in BOOLEAN : RtcSignal(SenderRoom, Sender, data, ok)
    \/ \E p \in TimedCallers, ok \in BOOLEAN : RtcPoll(p[1], p[2], 0, ok)
    \/ \E d \in TimedTickSteps : Tick(d)

SpecTimed == Init /\ [][NextTimed]_vars

\* C11: a rejected rtc_signal, whichever of the two errors it is answered,
\* leaves the signal table, the id counter and the presence table as they were:
\* no row added, none purged, no last_seen refreshed.
C11_RejectedNoChange ==
    [][(resp'.op = "signal" /\ resp'.status = 400) =>
          (signals' = signals /\ nextId' = nextId /\ parts' = parts)]_vars

\* a request was rejected for its payload while the sender's row was due a
\* refresh and a stored message was due the purge
C11_Witness ==
    /\ resp.op = "signal"
    /\ resp.status = 400
    /\ resp.error = "Missing payload"
    /\ \E r \in PartRows(parts, SenderRoom, Sender) : r.last_seen < now
    /\ \E m \in signals : m.created_at < now - Retention

\* at most one row of the presence table for a room and a user
OneRowPerCaller(P) ==
    \A r1, r2 \in BagToSet(P) :
        (r1.room = r2.room /\ r1.user_id = r2.user_id) => (r1 = r2 /\ P[r1] = 1)

\* C14: after every request the presence table holds at most one row for a
\* room and a caller, and after a join the caller's row of the room carries
\* the time of that join, whether the join created the row or found it.
C14_JoinUpsert ==
    [][/\ OneRowPerCaller(parts')
       /\ (resp'.op = "join" /\ now' = now) =>
             \E r \in BagToSet(parts') :
                 /\ r.room = resp'.room
                 /\ r.user_id = resp'.user
                 /\ r.last_seen = now]_vars

\* a join found the caller's row with an older last_seen, another caller
\* being in the room, and left the row refreshed
C14_Witness ==
    /\ resp.op = "join"
    /\ \E r \in resp.found : r.last_seen < now
    /\ resp.participants # <<>>
    /\ \E r \in PartRows(parts, resp.room, resp.user) : r.last_seen = now

\* C18: the participants a join is answered are the users with a row in the
\* room other than the caller, each once: never the caller, never a user whose
\* rows are all in other rooms.
C18_JoinSnapshot ==
    resp.op = "join" =>
        LET ids == DOMAIN resp.participants
        IN  /\ resp.user \notin ids
            /\ \A i \in ids : resp.participants[i] = 1
            /\ \A i \in ids : \E r \in BagToSet(parts) :
                  r.room = resp.room /\ r.user_id = i
            /\ \A r \in BagToSet(parts) :
                  (r.room = resp.room /\ r.user_id # resp.user) => r.user_id \in ids

\* a join answered one participant while a third user had a row in another
\* room only
C18_Witness ==
    /\ resp.op = "join"
    /\ Cardinality(DOMAIN resp.participants) = 1
    /\ PartRows(parts, resp.room, resp.user) # {}
    /\ \E r \in BagToSet(parts) :
          /\ r.room # resp.room
          /\ r.user_id # resp.user
          /\ r.user_id \notin DOMAIN resp.participants

\* C20: no request changes a field of a stored message, and a message leaves
\* the table only in a successful rtc_signal served more than the retention
\* window after the message was stored.
C20_Immutable ==
    [][/\ \A m \in signals : \A n \in signals' : n.id = m.id => n = m
       /\ \A m \in signals : m \notin signals' =>
             /\ now - m.created_at > Retention
             /\ resp'.op = "signal"
             /\ resp'.status = 200]_vars

\* a successful rtc_signal purged an older message and its own row is stored
C20_Witness ==
    /\ resp.op = "signal"
    /\ resp.status = 200
    /\ resp.id \in CommittedIds
    /\ \E i \in 1..(resp.id - 1) : i \notin CommittedIds

----------------------------------------------------------------------------
(* rtc_join of one caller served by several requests at once, each in three *)
(* steps: the lookup, the timestamp, the commit                              *)

JoinReqs == {"a", "b"}

\* the caller and the room of these requests
Joiner == CHOOSE u \in Users : TRUE
JoinRoom == CHOOSE room \in Rooms : TRUE

\* part = RtcParticipant.query.filter_by(room=room, user_id=u.id).first()
JoinLookup(req, room, u) ==
    /\ \A t \in txs : t.req # req
    /\ \E found \in (IF PartRows(parts, room, u) = {} THEN {{}}
                     ELSE {{r} : r \in PartRows(parts, room, u)}) :
          txs' = txs \cup {[req |-> req, room |-> room, user |-> u,
                            pc |-> "looked", found |-> found, stamp |-> NULL]}
    /\ UNCHANGED <<signals, parts, nextId, now, resp, cursor, got>>

\* if not part: part = RtcParticipant(...); add.  part.last_seen = utcnow()
JoinStamp(t) ==
    /\ t \in txs
    /\ t.pc = "looked"
    /\ txs' = (txs \ {t}) \cup {[t EXCEPT !.pc = "stamped", !.stamp = now]}
    /\ UNCHANGED <<signals, parts, nextId, now, resp, cursor, got>>

\* db.session.commit() and the answer: the row found is updated, or a row is
\* inserted; an insert that meets a row committed since the lookup adds a
\* second row, or fails where the table has a unique key on (room, user_id)
JoinCommit(t, unique) ==
    /\ t \in txs
    /\ t.pc = "stamped"
    /\ txs' = txs \ {t}
    /\ LET rows == PartRows(parts, t.room, t.user)
           new == [room |-> t.room, user_id |-> t.user, last_seen |-> t.stamp]
           answer(P) == [op |-> "join", room |-> t.room, user |-> t.user,
                         status |-> 200, found |-> t.found,
                         participants |-> Others(P, t.room, t.user)]
       IN  IF t.found # {}
           THEN /\ rows # {}
                /\ \E r \in rows :
                      /\ parts' = SetLastSeen(parts, r, t.stamp)
                      /\ resp' = answer(parts')
           ELSE IF rows # {} /\ unique
           THEN /\ parts' = parts
                /\ resp' = [op |-> "join", room |-> t.room, user |-> t.user,
                            status |-> 500]
           ELSE /\ parts' = parts (+) SetToBag({new})
                /\ resp' = answer(parts')
    /\ UNCHANGED <<signals, nextId, now, cursor, got>>

NextJoin ==
    \/ \E req \in JoinReqs : JoinLookup(req, JoinRoom, Joiner)
    \/ \E t \in txs : JoinStamp(t)
    \/ \E t \in txs, unique \in BOOLEAN : JoinCommit(t, unique)
    \/ \E d \in TimedTickSteps : Tick(d)

SpecJoin == Init /\ [][NextJoin]_vars

\* C15, as claimed: whatever the interleaving of the steps of the caller's
\* joins, a commit leaves at most one row for the room and the caller, and
\* never a last_seen older than one already committed.
C15_ConcurrentJoin ==
    [][/\ OneRowPerCaller(parts')
       /\ \A r \in BagToSet(parts) : \A n \in BagToSet(parts') :
             (n.room = r.room /\ n.user_id = r.user_id) => n.last_seen >= r.last_seen]_vars

----------------------------------------------------------------------------
(* What each handler leaves alone, and the cleanups that raise; requests     *)
(* served one at a time as in SpecTimed                                      *)

\* C21: a request adds a row to the presence table only if it is a join, and
\* then only the row of its caller in its room: no rtc_poll, rtc_signal or
\* rtc_leave gives a row to a caller that has none.
C21_OnlyJoinAdds ==
    [][\A r \in BagToSet(parts') :
          PartRows(parts, r.room, r.user_id) = {} =>
              (resp'.op = "join" /\ resp'.room = r.room /\ resp'.user = r.user_id)]_vars

\* after its leave the caller polled the room at a later time and has no row
C21_Witness ==
    /\ resp.op = "poll"
    /\ PartRows(parts, resp.room, resp.user) = {}
    /\ \E m \in signals :
          /\ m.kind = Str("leave")
          /\ m.room = resp.room
          /\ m.sender_id = resp.user
          /\ m.created_at < now
    /\ \E r \in BagToSet(parts) : r.last_seen = now

\* C22: a join or a poll leaves the signal table and its id counter as they
\* were.
C22_JoinPollKeepLog ==
    [][resp'.op \in {"join", "poll"} => (signals' = signals /\ nextId' = nextId)]_vars

\* a caller with a row polled, at the time its row carries, and was answered a
\* message older than the retention window, which is still stored
C22_Witness ==
    /\ resp.op = "poll"
    /\ \E r \in PartRows(parts, resp.room, resp.user) : r.last_seen = now
    /\ \E m \in signals :
          /\ m.created_at < now - Retention
          /\ m.id \in OutIds(resp.signals)

SignalStepCleaned ==
    \E data \in TimedData :
        SignalError(data) = "" /\ RtcSignal(SenderRoom, Sender, data, TRUE)

----------------------------------------------------------------------------
(* The ids and the cursor, the requests being in flight at once as in        *)
(* SpecConc                                                                  *)

\* the ids given out so far that are stored or in flight
GivenIds == CommittedIds \cup InFlightIds

\* C24, as claimed: an id given out is greater than every id given out before
\* it, and a message of the polling client's room that is broadcast or
\* addressed to it, sent by another, and stored after a poll returned the
\* client's cursor has an id above that cursor.
C24_FreshIds ==
    [][/\ \A i \in GivenIds' \ GivenIds : \A j \in GivenIds : j < i
       /\ \A m \in signals' \ signals :
             (/\ m.room = FollowRoom
              /\ m.sender_id # Follower
              /\ m.target_id \in {NULL, Follower})
             => m.id > cursor]_vars

----------------------------------------------------------------------------
(* Joins, leaves and polls served one at a time, the clock advancing by the  *)
(* presence TTL or a minute more, up to twice the TTL                        *)

PresenceTickSteps == {PresenceTTL, PresenceTTL + 1}
PresenceHorizon == 2 * PresenceTTL

NextPresence ==
    \/ \E p \in TimedCallers : RtcJoin(p[1], p[2])
    \/ RtcLeave(SenderRoom, Sender)
    \/ \E p \in TimedCallers, ok \in BOOLEAN : RtcPoll(p[1], p[2], 0, ok)
    \/ \E d \in PresenceTickSteps : now + d <= PresenceHorizon /\ Tick(d)

SpecPresence == Init /\ [][NextPresence]_vars

\* C25: the row of a room and a caller leaves the presence table only in a leave
\* of that room by that caller, or in a poll of another room or caller served
\* more than the presence TTL after the row's last_seen; a row touched within
\* the TTL is never removed by another caller's request.
C25_RemovedOnlyByLeaveOrReap ==
    [][\A r \in BagToSet(parts) :
          PartRows(parts', r.room, r.user_id) = {} =>
              \/ /\ resp'.op = "leave"
                 /\ resp'.room = r.room
                 /\ resp'.user = r.user_id
              \/ /\ resp'.op = "poll"
                 /\ <<resp'.room, resp'.user>> # <<r.room, r.user_id>>
                 /\ now - r.last_seen > PresenceTTL]_vars

\* a caller polled at twice the TTL and another caller's row, touched exactly
\* one TTL before, is still there
C25_Witness ==
    /\ resp.op = "poll"
    /\ now = 2 * PresenceTTL
    /\ \E r \in PartRows(parts, resp.room, resp.user) : r.last_seen = now
    /\ \E r \in BagToSet(parts) :
          /\ <<r.room, r.user_id>> # <<resp.room, resp.user>>
          /\ r.last_seen = now - PresenceTTL

\* C26: after a poll whose cleanup did not raise no row of any room has a
\* last_seen more than the presence TTL before the time of the poll, and the
\* caller's row, if it had one, is there with the time of the poll.
C26_ReapOnPoll ==
    [][(resp'.op = "poll" /\ RtcPoll(resp'.room, resp'.user, resp'.since, TRUE)) =>
          /\ \A r \in BagToSet(parts') : ~(r.last_seen < now - PresenceTTL)
          /\ PartRows(parts, resp'.room, resp'.user) # {} =>
                \E r \in PartRows(parts', resp'.room, resp'.user) :
                    r.last_seen = now]_vars

\* a caller polled a minute past the TTL and has its row, the only other row
\* being in another room and as fresh
C26_Witness ==
    /\ resp.op = "poll"
    /\ now = PresenceTTL + 1
    /\ \E r \in PartRows(parts, resp.room, resp.user) : r.last_seen = now
    /\ \E r \in BagToSet(parts) : r.room # resp.room
    /\ \A r \in BagToSet(parts) : r.last_seen = now

----------------------------------------------------------------------------
(* One sender, with or without a row, signalling nobody, itself or its peer, *)
(* with or without blanks around the kind; joins and polls by every caller   *)

\* the targets drawn: nobody and each caller of the sender's room, itself too
SendTargets == {NULL} \cup {p[2] : p \in {q \in TimedCallers : q[1] = SenderRoom}}

SendData ==
    [target_id : SendTargets,
     kind : {Some(Str("hello")), Some(<<" ", "hello">>)},
     payload : {Some(Str("hi"))}]

NextSend ==
    \/ \E p \in TimedCallers : RtcJoin(p[1], p[2])
    \/ \E data \in SendData, ok \in CleanupOutcomes :
          RtcSignal(SenderRoom, Sender, data, ok)
    \/ \E p \in TimedCallers, ok \in CleanupOutcomes : RtcPoll(p[1], p[2], 0, ok)
    \/ \E d \in TickSteps : Tick(d)

SpecSend == Init /\ [][NextSend]_vars

\* the step is the sender's valid rtc_signal with this body
SendStep(data) ==
    /\ resp'.op = "signal"
    /\ resp'.status = 200
    /\ RtcSignal(SenderRoom, Sender, data, TRUE)

\* the presence table after the step: the sender's row, if any, carries the
\* time of the call and every other row is as it was
SenderTouched ==
    /\ \A r \in PartRows(parts, SenderRoom, Sender) :
          [r EXCEPT !.last_seen = now] \in BagToSet(parts')
    /\ \A r \in PartRows(parts', SenderRoom, Sender) : r.last_seen = now
    /\ \A r \in BagToSet(parts) \cup BagToSet(parts') :
          <<r.room, r.user_id>> # <<SenderRoom, Sender>> =>
              (r \in BagToSet(parts) /\ r \in BagToSet(parts'))

\* the row stored under the id answered, with this kind
SentAs(data, kind) ==
    \E m \in signals' :
        /\ m.id = resp'.id
        /\ m.room = SenderRoom
        /\ m.sender_id = Sender
        /\ m.target_id = data.target_id
        /\ m.kind = kind
        /\ m.payload = data.payload[1]

\* C28, as claimed: a valid rtc_signal refreshes the sender's row alone and
\* stores a row with the sender, the room, the target, the kind and the payload
\* given.
C28_AsClaimed ==
    [][\A data \in SendData :
          SendStep(data) => (SenderTouched /\ SentAs(data, data.kind[1]))]_vars

\* C28, amended: the same, the kind stored being the kind given with its
\* leading and trailing blanks stripped.
C28_SignalTouch ==
    [][\A data \in SendData :
          SendStep(data) => (SenderTouched /\ SentAs(data, Strip(data.kind[1])))]_vars

\* a signal with blanks around its kind and a target was stored while the
\* sender's row and an older row of another caller were there
C28_Witness ==
    /\ resp.op = "signal"
    /\ resp.status = 200
    /\ OrEmpty(resp.kind) # Strip(OrEmpty(resp.kind))
    /\ \E m \in signals : m.id = resp.id /\ m.target_id # NULL /\ m.created_at = now
    /\ \E r \in PartRows(parts, SenderRoom, Sender) : r.last_seen = now
    /\ \E r \in BagToSet(parts) : r.room = SenderRoom /\ r.last_seen < now

\* the ids of the stored messages a poll is owed, whatever the presence table
Owed(room, u, since) ==
    {m.id : m \in {x \in signals :
                      /\ x.room = room
                      /\ x.id > since
                      /\ x.sender_id # u
                      /\ x.target_id \in {NULL, u}}}

\* C29: in every state, whichever rows the presence table holds, a poll of any
\* room by any caller from any cursor is answered the stored messages of the
\* room above the cursor that are broadcast or addressed to the caller and
\* sent by another, and the poll answered last was answered so.
C29_PollIgnoresPresence ==
    /\ \A room \in Rooms, u \in Users, since \in Sinces :
          OutIds(PollNow(room, u, since)) = Owed(room, u, since)
    /\ resp.op = "poll" =>
          OutIds(resp.signals) = Owed(resp.room, resp.user, resp.since)

\* a caller without a row polled from 0 and was answered a broadcast and a
\* message addressed to it, their sender having no row either
C29_Witness ==
    /\ resp.op = "poll"
    /\ PartRows(parts, resp.room, resp.user) = {}
    /\ PartRows(parts, SenderRoom, Sender) = {}
    /\ \E i, j \in 1..Len(resp.signals) :
          /\ resp.signals[i].target_id = NULL
          /\ resp.signals[j].target_id = resp.user

\* C30: a stored message whose target is its own sender is in no poll answer,
\* whatever the room, the caller and the cursor.
C30_SelfTargetUnseen ==
    \A m \in signals : m.target_id = m.sender_id =>
        \A room \in Rooms, u \in Users, since \in Sinces :
            m.id \notin OutIds(PollNow(room, u, since))

\* the sender polled its room from below the id of its stored message to
\* itself, and was answered without it
C30_Witness ==
    /\ resp.op = "poll"
    /\ resp.user = Sender
    /\ resp.room = SenderRoom
    /\ \E m \in signals :
          /\ m.target_id = m.sender_id
          /\ m.sender_id = resp.user
          /\ m.room = resp.room
          /\ m.id > resp.since
          /\ m.id \notin OutIds(resp.signals)

====
